---- MODULE Spec2Model ----
(***************************************************************************)
(* Model of huginn.simulator.Simulator (src/huginn/simulator.py): the      *)
(* crash latch, the pause/resume wrapper around the flight dynamics model  *)
(* and the step / run / run_for / reset algorithms.                        *)
(*                                                                         *)
(* The flight dynamics model (fdmexec) and the aircraft facade are         *)
(* collaborators; they are represented by the part of their state the      *)
(* simulator reads: the hold flag, the integration-suspended flag, the     *)
(* simulation time, the time step, the altitude and the four control       *)
(* setpoints.  Times are integers (multiples of a common time unit).       *)
(***************************************************************************)
EXTENDS Integers, Sequences, FiniteSets, TLC

\* ---------------------------------------------------------------- bounds
MaxTime == 3        \* simulation time is explored in 0..MaxTime
MaxDt == 2          \* the model's time step is drawn from 1..MaxDt
MaxDuration == 2    \* run_for durations are drawn from -1..MaxDuration
MaxCount == 3       \* the call counters saturate at MaxCount

\* ---------------------------------------------------------------- inputs
\* a negative altitude and the smallest altitude that is not negative
Altitudes == {-1, 0}
\* <<aileron, elevator, rudder, throttle>> setpoints
ZeroControls == <<0, 0, 0, 0>>
Controls == {ZeroControls, <<1, 1, 1, 1>>}
Durations == (-1)..MaxDuration

\* What one tick of the model (ProcessMessage, CheckIncrementalHold, Run)
\* can do: Run returns true ("ok"), Run returns false ("fail"), or one of
\* the three calls raises ("fault").  reached tells how far a faulting tick
\* got: "msg" = raised before Run was called, "run" = raised inside Run
\* before the time was advanced, "integrated" = raised after it.  alt is the
\* altitude the model reports once it has integrated.
TickOutcomes ==
    [result : {"ok", "fail", "fault"}, reached : {"integrated"}, alt : Altitudes]
    \cup [result : {"fault"}, reached : {"msg", "run"}, alt : {0}]

\* What aircraft.trim can do: its result and the setpoints it leaves.
TrimOutcomes == [ok : BOOLEAN, controls : Controls]

\* The simulators Simulator(fdmexec) makes inside create_simulator: crashed
\* is False, start_paused is the builder's, and the model just built by
\* the FDMBuilder is at time 0, neither held nor integration-suspended,
\* with the builder's time step and initial altitude.
FreshSimulators ==
    [crashed : {FALSE}, start_paused : BOOLEAN, holding : {FALSE},
     suspended : {FALSE}, simTime : {0}, dt : 1..MaxDt, altitude : Altitudes,
     controls : {ZeroControls}]

\* What ResetToInitialConditions / RunIC can do: the initial altitude and
\* the result of the initial-condition solver.
ICOutcomes == [ok : BOOLEAN, alt : Altitudes]

Inc(n) == IF n < MaxCount THEN n + 1 ELSE MaxCount

\* ----------------------------------------------------------------- state
VARIABLES
    crashed,        \* Simulator._crashed
    start_paused,   \* Simulator.start_paused
    holding,        \* fdmexec.Holding()
    suspended,      \* fdmexec.IntegrationSuspended()
    simTime,        \* fdmexec.GetSimTime()
    dt,             \* fdmexec.GetDeltaT()
    altitude,       \* fdm.position.altitude
    controls,       \* aircraft.controls: <<aileron, elevator, rudder, throttle>>
    pc,             \* "idle", the position inside run_for ("rf_test",
                    \* "rf_body"), or "none" when there is no simulator
    end_time,       \* run_for's local end_time
    op,             \* the last operation called
    arg,            \* its argument (run_for's time_to_run), 0 otherwise
    ret,            \* its result: "true", "false", "error" (SimulationError),
                    \* "none" (no return value), "pending" (still running);
                    \* of create_simulator: "simulator", "null", "error"
    steps,          \* number of step() calls it made (saturating)
    ticks,          \* number of fdmexec.Run() calls it made (saturating)
    tick,           \* what its last model tick did: "ok", "fail", "fault",
                    \* or "none" when its last step() drove no tick
    trim,           \* what its aircraft.trim call did: "ok", "failed", or
                    \* "none" when it did not trim
    pre             \* the simulator state when it was called

vars == <<crashed, start_paused, holding, suspended, simTime, dt, altitude,
          controls, pc, end_time, op, arg, ret, steps, ticks, tick, trim,
          pre>>

\* The part of the state an operation can change, as recorded in pre.
Snapshot ==
    [crashed |-> crashed, holding |-> holding, suspended |-> suspended,
     simTime |-> simTime, altitude |-> altitude, controls |-> controls]

\* The same part of a simulator state s.
SnapshotOf(s) ==
    [crashed |-> s.crashed, holding |-> s.holding, suspended |-> s.suspended,
     simTime |-> s.simTime, altitude |-> s.altitude, controls |-> s.controls]

\* The simulator and its model as one value.
State ==
    [crashed |-> crashed, start_paused |-> start_paused, holding |-> holding,
     suspended |-> suspended, simTime |-> simTime, dt |-> dt,
     altitude |-> altitude, controls |-> controls]

Commit(s) ==
    /\ crashed' = s.crashed
    /\ start_paused' = s.start_paused
    /\ holding' = s.holding
    /\ suspended' = s.suspended
    /\ simTime' = s.simTime
    /\ dt' = s.dt
    /\ altitude' = s.altitude
    /\ controls' = s.controls

\* ------------------------------------------------------------ operations
\* Simulator.pause: fdmexec.Hold()
Pause(s) == [s EXCEPT !.holding = TRUE]

\* Mutant of Resume: the crashed guard is missing.
ResumeUnguarded(s) == [s EXCEPT !.suspended = FALSE, !.holding = FALSE]

\* Mutant of Resume: resuming also clears the crash flag.
ResumeClearsCrash(s) ==
    [s EXCEPT !.crashed = FALSE, !.suspended = FALSE, !.holding = FALSE]

\* Mutant of Resume: the integration suspension is not cleared.
ResumeKeepsSuspension(s) ==
    IF s.crashed THEN s
    ELSE [s EXCEPT !.holding = FALSE]

\* Simulator.resume
Resume(s) ==
    IF s.crashed THEN s
    ELSE [s EXCEPT !.suspended = FALSE, !.holding = FALSE]

\* Simulator.is_paused
IsPaused(s) == s.holding

\* fdmexec.ProcessMessage(); fdmexec.CheckIncrementalHold(); fdmexec.Run().
\* The simulator never enables increment-then-hold, so CheckIncrementalHold
\* leaves the hold flag alone.  Run advances the time by one time step, and
\* the aircraft moves, only when the model is neither held nor
\* integration-suspended.
Tick(s, o) ==
    IF o.reached = "integrated" /\ ~s.holding /\ ~s.suspended
    THEN [s EXCEPT !.simTime = @ + s.dt, !.altitude = o.alt]
    ELSE s

\* Number of fdmexec.Run() calls of a tick.
RunCalls(o) == IF o.reached = "msg" THEN 0 ELSE 1

\* Mutant of Step: the crash branch forgets to pause the model.
StepCrashNoPause(s, o) ==
    IF ~s.crashed /\ s.altitude < 0
    THEN [s |-> [s EXCEPT !.crashed = TRUE], ret |-> "true", ticks |-> 0, tick |-> "none"]
    ELSE IF s.crashed
    THEN [s |-> s, ret |-> "true", ticks |-> 0, tick |-> "none"]
    ELSE LET was_paused == IsPaused(s)
             s1 == IF was_paused THEN Resume(s) ELSE s
             s2 == Tick(s1, o)
         IN  IF o.result = "fault"
             THEN [s |-> s2, ret |-> "error", ticks |-> RunCalls(o), tick |-> "fault"]
             ELSE [s |-> IF was_paused THEN Pause(s2) ELSE s2,
                   ret |-> IF o.result = "ok" THEN "true" ELSE "false",
                   ticks |-> 1, tick |-> o.result]

\* Mutant of Step: the crash branch reports failure.
StepCrashFails(s, o) ==
    IF ~s.crashed /\ s.altitude < 0
    THEN [s |-> [Pause(s) EXCEPT !.crashed = TRUE], ret |-> "false", ticks |-> 0, tick |-> "none"]
    ELSE IF s.crashed
    THEN [s |-> s, ret |-> "true", ticks |-> 0, tick |-> "none"]
    ELSE LET was_paused == IsPaused(s)
             s1 == IF was_paused THEN Resume(s) ELSE s
             s2 == Tick(s1, o)
         IN  IF o.result = "fault"
             THEN [s |-> s2, ret |-> "error", ticks |-> RunCalls(o), tick |-> "fault"]
             ELSE [s |-> IF was_paused THEN Pause(s2) ELSE s2,
                   ret |-> IF o.result = "ok" THEN "true" ELSE "false",
                   ticks |-> 1, tick |-> o.result]

\* Mutant of Step: the early return of a crashed simulator is missing.
StepNoCrashedReturn(s, o) ==
    IF ~s.crashed /\ s.altitude < 0
    THEN [s |-> [Pause(s) EXCEPT !.crashed = TRUE], ret |-> "true", ticks |-> 0, tick |-> "none"]
    ELSE LET was_paused == IsPaused(s)
             s1 == IF was_paused THEN Resume(s) ELSE s
             s2 == Tick(s1, o)
         IN  IF o.result = "fault"
             THEN [s |-> s2, ret |-> "error", ticks |-> RunCalls(o), tick |-> "fault"]
             ELSE [s |-> IF was_paused THEN Pause(s2) ELSE s2,
                   ret |-> IF o.result = "ok" THEN "true" ELSE "false",
                   ticks |-> 1, tick |-> o.result]

\* Mutant of Step: the pause state is not restored after a successful tick.
StepNoRepause(s, o) ==
    IF ~s.crashed /\ s.altitude < 0
    THEN [s |-> [Pause(s) EXCEPT !.crashed = TRUE], ret |-> "true", ticks |-> 0, tick |-> "none"]
    ELSE IF s.crashed
    THEN [s |-> s, ret |-> "true", ticks |-> 0, tick |-> "none"]
    ELSE LET was_paused == IsPaused(s)
             s1 == IF was_paused THEN Resume(s) ELSE s
             s2 == Tick(s1, o)
         IN  IF o.result = "fault"
             THEN [s |-> s2, ret |-> "error", ticks |-> RunCalls(o), tick |-> "fault"]
             ELSE [s |-> IF was_paused /\ o.result = "fail" THEN Pause(s2) ELSE s2,
                   ret |-> IF o.result = "ok" THEN "true" ELSE "false",
                   ticks |-> 1, tick |-> o.result]

\* Mutant of Step: a fault of the tick is reported as a failed run.
StepFaultAsFailure(s, o) ==
    IF ~s.crashed /\ s.altitude < 0
    THEN [s |-> [Pause(s) EXCEPT !.crashed = TRUE], ret |-> "true", ticks |-> 0, tick |-> "none"]
    ELSE IF s.crashed
    THEN [s |-> s, ret |-> "true", ticks |-> 0, tick |-> "none"]
    ELSE LET was_paused == IsPaused(s)
             s1 == IF was_paused THEN Resume(s) ELSE s
             s2 == Tick(s1, o)
         IN  IF o.result = "fault"
             THEN [s |-> IF was_paused THEN Pause(s2) ELSE s2, ret |-> "false",
                   ticks |-> RunCalls(o), tick |-> "fault"]
             ELSE [s |-> IF was_paused THEN Pause(s2) ELSE s2,
                   ret |-> IF o.result = "ok" THEN "true" ELSE "false",
                   ticks |-> 1, tick |-> o.result]

\* Mutant of Step: the altitude is tested only when the model is running.
StepCrashCheckOnlyWhenRunning(s, o) ==
    IF ~s.crashed /\ ~IsPaused(s) /\ s.altitude < 0
    THEN [s |-> [Pause(s) EXCEPT !.crashed = TRUE], ret |-> "true", ticks |-> 0, tick |-> "none"]
    ELSE IF s.crashed
    THEN [s |-> s, ret |-> "true", ticks |-> 0, tick |-> "none"]
    ELSE LET was_paused == IsPaused(s)
             s1 == IF was_paused THEN Resume(s) ELSE s
             s2 == Tick(s1, o)
         IN  IF o.result = "fault"
             THEN [s |-> s2, ret |-> "error", ticks |-> RunCalls(o), tick |-> "fault"]
             ELSE [s |-> IF was_paused THEN Pause(s2) ELSE s2,
                   ret |-> IF o.result = "ok" THEN "true" ELSE "false",
                   ticks |-> 1, tick |-> o.result]

\* Mutant of Step: the pause state is not restored after a failed run.
StepNoRepauseOnFailure(s, o) ==
    IF ~s.crashed /\ s.altitude < 0
    THEN [s |-> [Pause(s) EXCEPT !.crashed = TRUE], ret |-> "true", ticks |-> 0, tick |-> "none"]
    ELSE IF s.crashed
    THEN [s |-> s, ret |-> "true", ticks |-> 0, tick |-> "none"]
    ELSE LET was_paused == IsPaused(s)
             s1 == IF was_paused THEN Resume(s) ELSE s
             s2 == Tick(s1, o)
         IN  IF o.result = "fault"
             THEN [s |-> s2, ret |-> "error", ticks |-> RunCalls(o), tick |-> "fault"]
             ELSE [s |-> IF was_paused /\ o.result = "ok" THEN Pause(s2) ELSE s2,
                   ret |-> IF o.result = "ok" THEN "true" ELSE "false",
                   ticks |-> 1, tick |-> o.result]

\* Mutant of Step: the pause state is restored before the fault is raised.
StepRepauseOnFault(s, o) ==
    IF ~s.crashed /\ s.altitude < 0
    THEN [s |-> [Pause(s) EXCEPT !.crashed = TRUE], ret |-> "true", ticks |-> 0, tick |-> "none"]
    ELSE IF s.crashed
    THEN [s |-> s, ret |-> "true", ticks |-> 0, tick |-> "none"]
    ELSE LET was_paused == IsPaused(s)
             s1 == IF was_paused THEN Resume(s) ELSE s
             s2 == Tick(s1, o)
         IN  IF o.result = "fault"
             THEN [s |-> IF was_paused THEN Pause(s2) ELSE s2, ret |-> "error",
                   ticks |-> RunCalls(o), tick |-> "fault"]
             ELSE [s |-> IF was_paused THEN Pause(s2) ELSE s2,
                   ret |-> IF o.result = "ok" THEN "true" ELSE "false",
                   ticks |-> 1, tick |-> o.result]

\* Simulator.step with tick outcome o: the state it leaves, its result
\* ("error" = SimulationError raised) and the number of Run() calls.
Step(s, o) ==
    IF ~s.crashed /\ s.altitude < 0
    THEN [s |-> [Pause(s) EXCEPT !.crashed = TRUE], ret |-> "true", ticks |-> 0, tick |-> "none"]
    ELSE IF s.crashed
    THEN [s |-> s, ret |-> "true", ticks |-> 0, tick |-> "none"]
    ELSE LET was_paused == IsPaused(s)
             s1 == IF was_paused THEN Resume(s) ELSE s
             s2 == Tick(s1, o)
         IN  IF o.result = "fault"
             THEN [s |-> s2, ret |-> "error", ticks |-> RunCalls(o), tick |-> "fault"]
             ELSE [s |-> IF was_paused THEN Pause(s2) ELSE s2,
                   ret |-> IF o.result = "ok" THEN "true" ELSE "false",
                   ticks |-> 1, tick |-> o.result]

\* Mutant of TrimOrZero: the setpoints are not zeroed after a failed trim.
TrimNoZero(s, tr) == [s EXCEPT !.controls = tr.controls]

\* aircraft.trim with outcome tr, followed by the zeroing of the setpoints
\* when it failed.
TrimOrZero(s, tr) ==
    [s EXCEPT !.controls = IF tr.ok THEN tr.controls ELSE ZeroControls]

\* Mutant of Reset: crashed is cleared only once the initial-condition solver has succeeded.
ResetClearsCrashLate(s, ic, tr, o) ==
    LET s1 == Pause(s)
        s2 == [s1 EXCEPT !.controls = ZeroControls]
        \* ResetToInitialConditions(0); RunIC()
        s3 == [s2 EXCEPT !.simTime = 0, !.altitude = ic.alt]
        \* start_engines(); trim(trim_mode)
        s4 == TrimOrZero([s3 EXCEPT !.crashed = FALSE], tr)
        st == Step(s4, o)
        trim_result == IF tr.ok THEN "ok" ELSE "failed"
    IN  IF ~ic.ok
        THEN [s |-> s3, ret |-> "false", steps |-> 0, ticks |-> 0,
              tick |-> "none", trim |-> "none"]
        ELSE IF st.ret = "error"
        THEN [s |-> st.s, ret |-> "error", steps |-> 1, ticks |-> st.ticks,
              tick |-> st.tick, trim |-> trim_result]
        ELSE IF st.ret = "false"
        THEN [s |-> st.s, ret |-> "false", steps |-> 1, ticks |-> st.ticks,
              tick |-> st.tick, trim |-> trim_result]
        ELSE [s |-> IF ~s.start_paused THEN Resume(st.s) ELSE st.s,
              ret |-> "true", steps |-> 1, ticks |-> st.ticks,
              tick |-> st.tick, trim |-> trim_result]

\* Mutant of Reset: crashed is not cleared.
ResetKeepsCrash(s, ic, tr, o) ==
    LET s1 == Pause(s)
        s2 == [s1 EXCEPT !.controls = ZeroControls]
        \* ResetToInitialConditions(0); RunIC()
        s3 == [s2 EXCEPT !.simTime = 0, !.altitude = ic.alt]
        \* start_engines(); trim(trim_mode)
        s4 == TrimOrZero(s3, tr)
        st == Step(s4, o)
        trim_result == IF tr.ok THEN "ok" ELSE "failed"
    IN  IF ~ic.ok
        THEN [s |-> s3, ret |-> "false", steps |-> 0, ticks |-> 0,
              tick |-> "none", trim |-> "none"]
        ELSE IF st.ret = "error"
        THEN [s |-> st.s, ret |-> "error", steps |-> 1, ticks |-> st.ticks,
              tick |-> st.tick, trim |-> trim_result]
        ELSE IF st.ret = "false"
        THEN [s |-> st.s, ret |-> "false", steps |-> 1, ticks |-> st.ticks,
              tick |-> st.tick, trim |-> trim_result]
        ELSE [s |-> IF ~s.start_paused THEN Resume(st.s) ELSE st.s,
              ret |-> "true", steps |-> 1, ticks |-> st.ticks,
              tick |-> st.tick, trim |-> trim_result]

\* Mutant of Reset: start_paused is ignored.
ResetAlwaysResumes(s, ic, tr, o) ==
    LET s1 == Pause([s EXCEPT !.crashed = FALSE])
        s2 == [s1 EXCEPT !.controls = ZeroControls]
        \* ResetToInitialConditions(0); RunIC()
        s3 == [s2 EXCEPT !.simTime = 0, !.altitude = ic.alt]
        \* start_engines(); trim(trim_mode)
        s4 == TrimOrZero(s3, tr)
        st == Step(s4, o)
        trim_result == IF tr.ok THEN "ok" ELSE "failed"
    IN  IF ~ic.ok
        THEN [s |-> s3, ret |-> "false", steps |-> 0, ticks |-> 0,
              tick |-> "none", trim |-> "none"]
        ELSE IF st.ret = "error"
        THEN [s |-> st.s, ret |-> "error", steps |-> 1, ticks |-> st.ticks,
              tick |-> st.tick, trim |-> trim_result]
        ELSE IF st.ret = "false"
        THEN [s |-> st.s, ret |-> "false", steps |-> 1, ticks |-> st.ticks,
              tick |-> st.tick, trim |-> trim_result]
        ELSE [s |-> Resume(st.s),
              ret |-> "true", steps |-> 1, ticks |-> st.ticks,
              tick |-> st.tick, trim |-> trim_result]

\* Simulator.reset with initial-condition outcome ic, trim outcome tr and
\* tick outcome o of its validation step.
Reset(s, ic, tr, o) ==
    LET s1 == Pause([s EXCEPT !.crashed = FALSE])
        s2 == [s1 EXCEPT !.controls = ZeroControls]
        \* ResetToInitialConditions(0); RunIC()
        s3 == [s2 EXCEPT !.simTime = 0, !.altitude = ic.alt]
        \* start_engines(); trim(trim_mode)
        s4 == TrimOrZero(s3, tr)
        st == Step(s4, o)
        trim_result == IF tr.ok THEN "ok" ELSE "failed"
    IN  IF ~ic.ok
        THEN [s |-> s3, ret |-> "false", steps |-> 0, ticks |-> 0,
              tick |-> "none", trim |-> "none"]
        ELSE IF st.ret = "error"
        THEN [s |-> st.s, ret |-> "error", steps |-> 1, ticks |-> st.ticks,
              tick |-> st.tick, trim |-> trim_result]
        ELSE IF st.ret = "false"
        THEN [s |-> st.s, ret |-> "false", steps |-> 1, ticks |-> st.ticks,
              tick |-> st.tick, trim |-> trim_result]
        ELSE [s |-> IF ~s.start_paused THEN Resume(st.s) ELSE st.s,
              ret |-> "true", steps |-> 1, ticks |-> st.ticks,
              tick |-> st.tick, trim |-> trim_result]

\* Mutant of InvalidRunTime: the validation is off by one.
InvalidRunTimeOffByOne(time_to_run) == time_to_run < -1

\* Simulator.run_for: the validation of its argument.
InvalidRunTime(time_to_run) == time_to_run < 0

\* Mutant of KeepRunning: the loop stops when the end time is reached.
KeepRunningStrict(now, end) == now < end

\* Simulator.run_for: the loop condition.
KeepRunning(now, end) == now <= end

\* Mutant of Run: the hold guard is missing.
RunUnguarded(s, o) ==
    LET st == Step(s, o)
    IN  [s |-> st.s, ret |-> st.ret, steps |-> 1, ticks |-> st.ticks,
         tick |-> st.tick]

\* Simulator.run with tick outcome o.
Run(s, o) ==
    IF ~s.holding
    THEN LET st == Step(s, o)
         IN  [s |-> st.s, ret |-> st.ret, steps |-> 1, ticks |-> st.ticks,
              tick |-> st.tick]
    ELSE [s |-> s, ret |-> "true", steps |-> 0, ticks |-> 0, tick |-> "none"]

\* Simulator.set_aircraft_controls
SetAircraftControls(s, c) == [s EXCEPT !.controls = c]

\* Mutant of BuilderTrim: the setpoints are not zeroed after a failed trim.
BuilderTrimNoZero(s, tr) == [s EXCEPT !.controls = tr.controls]

\* SimulationBuilder.create_simulator: aircraft.trim with outcome tr,
\* followed by the zeroing of the setpoints when it failed.
BuilderTrim(s, tr) ==
    [s EXCEPT !.controls = IF tr.ok THEN tr.controls ELSE ZeroControls]

\* SimulationBuilder.create_simulator on the new simulator f, with trim
\* outcome tr and tick outcome o of its validation step.  ret is
\* "simulator" when the simulator is returned, "null" when None is
\* returned and "error" when the SimulationError of step() propagates.
CreateSimulator(f, tr, o) ==
    LET s1 == BuilderTrim(f, tr)
        st == Step(s1, o)
        trim_result == IF tr.ok THEN "ok" ELSE "failed"
    IN  IF st.ret = "error"
        THEN [s |-> st.s, ret |-> "error", steps |-> 1, ticks |-> st.ticks,
              tick |-> st.tick, trim |-> trim_result]
        ELSE IF st.ret = "false"
        THEN [s |-> st.s, ret |-> "null", steps |-> 1, ticks |-> st.ticks,
              tick |-> st.tick, trim |-> trim_result]
        ELSE [s |-> IF f.start_paused THEN Pause(st.s) ELSE st.s,
              ret |-> "simulator", steps |-> 1, ticks |-> st.ticks,
              tick |-> st.tick, trim |-> trim_result]

\* --------------------------------------------------------------- actions
\* The model can take one more tick inside the explored time range.
CanTick == simTime + dt <= MaxTime

\* Bookkeeping of a call that returns at once.
Called(name, a, r, nsteps, nticks, tk, tm) ==
    /\ op' = name
    /\ arg' = a
    /\ ret' = r
    /\ steps' = nsteps
    /\ ticks' = nticks
    /\ tick' = tk
    /\ trim' = tm
    /\ pre' = Snapshot
    /\ UNCHANGED <<pc, end_time>>

\* Simulator.__init__ around a given model: crashed is False; the model is
\* in whatever state its owner left it.
Init ==
    /\ crashed = FALSE
    /\ start_paused \in BOOLEAN
    /\ holding \in BOOLEAN
    /\ suspended \in BOOLEAN
    /\ simTime = 0
    /\ dt \in 1..MaxDt
    /\ altitude \in Altitudes
    /\ controls = ZeroControls
    /\ pc = "idle"
    /\ end_time = 0
    /\ op = "init"
    /\ arg = 0
    /\ ret = "none"
    /\ steps = 0
    /\ ticks = 0
    /\ tick = "none"
    /\ trim = "none"
    /\ pre = Snapshot

PauseCall ==
    /\ pc = "idle"
    /\ Commit(Pause(State))
    /\ Called("pause", 0, "none", 0, 0, "none", "none")

ResumeCall ==
    /\ pc = "idle"
    /\ Commit(Resume(State))
    /\ Called("resume", 0, "none", 0, 0, "none", "none")

StepCall ==
    /\ pc = "idle"
    /\ CanTick
    /\ \E o \in TickOutcomes :
          LET st == Step(State, o)
          IN  /\ Commit(st.s)
              /\ Called("step", 0, st.ret, 1, st.ticks, st.tick, "none")

RunCall ==
    /\ pc = "idle"
    /\ CanTick
    /\ \E o \in TickOutcomes :
          LET r == Run(State, o)
          IN  /\ Commit(r.s)
              /\ Called("run", 0, r.ret, r.steps, r.ticks, r.tick, "none")

\* When the initial-condition solver fails, reset returns before the trim
\* and the validation step: their outcomes are not drawn.
ResetCall ==
    /\ pc = "idle"
    /\ \E ic \in ICOutcomes :
          \E tr \in IF ic.ok THEN TrimOutcomes
                     ELSE {[ok |-> FALSE, controls |-> ZeroControls]} :
             \E o \in IF ic.ok THEN TickOutcomes
                       ELSE {[result |-> "ok", reached |-> "integrated", alt |-> 0]} :
                LET r == Reset(State, ic, tr, o)
                IN  /\ Commit(r.s)
                    /\ Called("reset", 0, r.ret, r.steps, r.ticks, r.tick, r.trim)

SetAircraftControlsCall ==
    /\ pc = "idle"
    /\ \E c \in Controls :
          /\ Commit(SetAircraftControls(State, c))
          /\ Called("set_aircraft_controls", 0, "none", 0, 0, "none", "none")

\* SimulationBuilder.create_simulator.  A behaviour follows one simulator:
\* it is either constructed around a given model (Init) or built here,
\* before anything is called on it; when the builder returns no simulator
\* (pc = "none") nothing but another create_simulator can be called.
CreateSimulatorCall ==
    /\ op = "init" \/ pc = "none"
    /\ \E f \in FreshSimulators, tr \in TrimOutcomes, o \in TickOutcomes :
          LET r == CreateSimulator(f, tr, o)
          IN  /\ Commit(r.s)
              /\ op' = "create_simulator"
              /\ arg' = 0
              /\ ret' = r.ret
              /\ steps' = r.steps
              /\ ticks' = r.ticks
              /\ tick' = r.tick
              /\ trim' = r.trim
              /\ pre' = SnapshotOf(f)
              /\ pc' = IF r.ret = "simulator" THEN "idle" ELSE "none"
              /\ UNCHANGED end_time

\* run_for, entry: the validation, then start_time and end_time.
RunForCall ==
    /\ pc = "idle"
    /\ \E t \in Durations :
          /\ InvalidRunTime(t) \/ simTime + t + dt <= MaxTime
          /\ op' = "run_for"
          /\ arg' = t
          /\ steps' = 0
          /\ ticks' = 0
          /\ tick' = "none"
          /\ trim' = "none"
          /\ pre' = Snapshot
          /\ IF InvalidRunTime(t)
             THEN /\ ret' = "false"
                  /\ UNCHANGED <<pc, end_time>>
             ELSE /\ ret' = "pending"
                  /\ pc' = "rf_test"
                  /\ end_time' = simTime + t
    /\ UNCHANGED <<crashed, start_paused, holding, suspended, simTime, dt,
                   altitude, controls>>

\* run_for, the loop test: while self.fdmexec.GetSimTime() <= end_time
RunForTest ==
    /\ pc = "rf_test"
    /\ IF KeepRunning(simTime, end_time)
       THEN /\ pc' = "rf_body"
            /\ UNCHANGED ret
       ELSE /\ pc' = "idle"
            /\ ret' = "true"
    /\ UNCHANGED <<crashed, start_paused, holding, suspended, simTime, dt,
                   altitude, controls, end_time, op, arg, steps, ticks, tick,
                   trim, pre>>

\* run_for, the loop body: result = self.step(); if not result: return False
RunForBody ==
    /\ pc = "rf_body"
    /\ \E o \in TickOutcomes :
          LET st == Step(State, o)
          IN  /\ Commit(st.s)
              /\ steps' = Inc(steps)
              /\ ticks' = IF st.ticks = 1 THEN Inc(ticks) ELSE ticks
              /\ tick' = st.tick
              /\ IF st.ret = "true"
                 THEN /\ pc' = "rf_test"
                      /\ UNCHANGED ret
                 ELSE /\ pc' = "idle"
                      /\ ret' = st.ret
    /\ UNCHANGED <<end_time, op, arg, trim, pre>>

Next ==
    \/ PauseCall
    \/ ResumeCall
    \/ StepCall
    \/ RunCall
    \/ ResetCall
    \/ SetAircraftControlsCall
    \/ CreateSimulatorCall
    \/ RunForCall
    \/ RunForTest
    \/ RunForBody

Spec == Init /\ [][Next]_vars

\* run_for is a plain loop of a running thread: once called, its loop test
\* and its loop body keep being executed.
FairSpec == Spec /\ WF_vars(RunForTest) /\ WF_vars(RunForBody)

TypeOK ==
    /\ crashed \in BOOLEAN
    /\ start_paused \in BOOLEAN
    /\ holding \in BOOLEAN
    /\ suspended \in BOOLEAN
    /\ simTime \in 0..MaxTime
    /\ dt \in 1..MaxDt
    /\ altitude \in Altitudes
    /\ controls \in Controls
    /\ pc \in {"idle", "rf_test", "rf_body", "none"}
    /\ ret \in {"true", "false", "error", "none", "pending", "simulator", "null"}
    /\ steps \in 0..MaxCount
    /\ ticks \in 0..MaxCount
    /\ tick \in {"none", "ok", "fail", "fault"}
    /\ trim \in {"none", "ok", "failed"}

\* ---------------------------------------------------------------- claims
\* The state recorded in pre, as a simulator state.
PreState ==
    [crashed |-> pre.crashed, start_paused |-> start_paused,
     holding |-> pre.holding, suspended |-> pre.suspended,
     simTime |-> pre.simTime, dt |-> dt, altitude |-> pre.altitude,
     controls |-> pre.controls]

\* C1: in every reachable state, crashed implies that the model is held
\* (is_paused() is true).
C1_CrashedImpliesHeld == crashed => IsPaused(State)

\* A resume() was attempted on a crashed simulator, which is still held.
C1_Witness == crashed /\ op = "resume" /\ pre.crashed /\ holding

\* C2: crashed is a one-way latch: no call other than reset makes a true
\* crashed flag false.
C2_CrashLatch == [][(crashed /\ op' # "reset") => crashed']_vars

\* A crashed simulator was driven by run_for, which called step(), and it
\* is still crashed.
C2_Witness == crashed /\ pre.crashed /\ op = "run_for" /\ steps >= 2

\* C3: a step() call on a crashed simulator returns success and leaves the
\* model unchanged: Run() is not called; the time, the hold flag and the
\* integration-suspended flag are untouched.
C3_StepAfterCrashIsNoOp ==
    (op = "step" /\ pre.crashed) =>
        /\ ret = "true"
        /\ ticks = 0
        /\ Snapshot = pre

\* step() was called on a crashed simulator.
C3_Witness == op = "step" /\ pre.crashed /\ ret = "true"

\* C4: a step() called while paused (not crashed, altitude not negative,
\* tick succeeds) advances the simulated time by exactly one tick and the
\* simulator is paused again when it returns.
C4_StepWhilePaused ==
    (op = "step" /\ ~pre.crashed /\ pre.holding /\ pre.altitude >= 0
        /\ ret = "true") =>
        /\ ticks = 1
        /\ simTime = pre.simTime + dt
        /\ IsPaused(State)

\* A step() of a paused simulator, whose model was integration-suspended
\* as well, has succeeded.
C4_Witness ==
    /\ op = "step" /\ ~pre.crashed /\ pre.holding /\ pre.suspended
    /\ pre.altitude >= 0 /\ ret = "true" /\ simTime = pre.simTime + dt

\* C5 as stated: when the altitude crosses below 0 during a step() executed
\* while running, that step() returns success, crashed becomes true and
\* is_paused() becomes true.
C5_CrashLatchedByCrossingStep ==
    (op = "step" /\ ~pre.crashed /\ ~pre.holding /\ pre.altitude >= 0
        /\ altitude < 0) =>
        /\ ret = "true"
        /\ crashed
        /\ IsPaused(State)

\* C5 amended: the altitude is tested on entry only.  A step() entered while
\* running, not crashed, with a negative altitude returns success, sets
\* crashed and holds the model; a step() entered while running with an
\* altitude that is not negative leaves crashed false and the model running,
\* whatever the altitude is after its tick.
C5_CrashLatchedOnEntry ==
    /\ (op = "step" /\ ~pre.crashed /\ ~pre.holding /\ pre.altitude < 0) =>
          (ret = "true" /\ crashed /\ IsPaused(State))
    /\ (op = "step" /\ ~pre.crashed /\ ~pre.holding /\ pre.altitude >= 0) =>
          (~crashed /\ ~IsPaused(State))

\* A step() entered while running with a negative altitude has latched the
\* crash.
C5_Witness ==
    /\ op = "step" /\ ~pre.crashed /\ ~pre.holding /\ pre.altitude < 0
    /\ crashed /\ holding /\ pre.simTime > 0

\* C6: run_for(t) with t < 0 returns failure without calling step(): the
\* time, the hold state, crashed and the control setpoints are unchanged.
C6_NegativeRunForRejected ==
    (op = "run_for" /\ arg < 0) =>
        /\ ret = "false"
        /\ pc = "idle"
        /\ steps = 0
        /\ ticks = 0
        /\ Snapshot = pre

\* run_for was called with a negative duration on a simulator that has run.
C6_Witness == op = "run_for" /\ arg < 0 /\ ret = "false" /\ simTime > 0

\* C7: run_for(t) with t >= 0 returns success only once the simulation time
\* is strictly greater than start_time + t, and after at least one step().
C7_RunForPastEndTime ==
    (op = "run_for" /\ arg >= 0 /\ ret = "true") =>
        /\ simTime > pre.simTime + arg
        /\ simTime - pre.simTime >= arg
        /\ steps >= 1

\* run_for(t), t > 0, has returned success after several steps.
C7_Witness ==
    op = "run_for" /\ arg >= 1 /\ ret = "true" /\ steps >= 2 /\ pc = "idle"

\* C8: a run_for(t), t >= 0, during which the aircraft crashes, or that is
\* started when already crashed, eventually returns, and returns success.
C8_RunForThroughCrashReturns ==
    [](((pc \in {"rf_test", "rf_body"}) /\ crashed)
          => <>(pc = "idle" /\ ret = "true"))

\* C9: run() on a held model is a no-op returning success; on a model that
\* is not held it performs exactly one step() and returns its result.
C9_RunGuardedByHold ==
    (op = "run") =>
        IF pre.holding
        THEN ret = "true" /\ steps = 0 /\ ticks = 0 /\ Snapshot = pre
        ELSE /\ steps = 1
             /\ \E o \in TickOutcomes :
                   LET st == Step(PreState, o)
                   IN  /\ ret = st.ret
                       /\ ticks = st.ticks
                       /\ State = st.s

\* run() was called on a held, not crashed simulator.
C9_Witness ==
    op = "run" /\ pre.holding /\ ~pre.crashed /\ pre.altitude >= 0 /\ ret = "true"

\* C10: resume() on a crashed simulator is a no-op: the model remains held
\* and neither its hold flag nor its integration-suspended flag changes.
C10_ResumeAfterCrashIsNoOp ==
    (op = "resume" /\ pre.crashed) =>
        /\ IsPaused(State)
        /\ holding = pre.holding
        /\ suspended = pre.suspended
        /\ Snapshot = pre

\* resume() was called on a crashed simulator whose model was
\* integration-suspended as well as held.
C10_Witness == op = "resume" /\ pre.crashed /\ pre.holding /\ pre.suspended

\* C11 as stated: a reset() that reports failure does not leave a previously
\* crashed simulator with crashed false.
C11_FailedResetKeepsCrash ==
    (op = "reset" /\ pre.crashed /\ ret = "false") => crashed

\* C11 amended: crashed changes from true to false only as part of a reset()
\* call, whether that call succeeds or not: a reset() that reports failure
\* always leaves crashed false.
C11_ResetClearsCrashEvenWhenItFails ==
    /\ (pre.crashed /\ ~crashed) => op = "reset"
    /\ (op = "reset" /\ ret = "false") => ~crashed

\* A reset() of a crashed simulator has reported failure and left crashed
\* false.
C11_Witness == op = "reset" /\ pre.crashed /\ ret = "false" /\ ~crashed

\* C12 as stated: crashed is false whenever reset() returns.
C12_ResetAlwaysClearsCrash ==
    (op = "reset" /\ ret \in {"true", "false"}) => ~crashed

\* C12 amended: after reset(), crashed is true exactly when the validation
\* step found the altitude negative after the initial-condition reset (it
\* then drove no tick and reset() returned success); otherwise it is false.
C12_ResetCrashIffNegativeAltitude ==
    (op = "reset") =>
        (crashed <=> (ret = "true" /\ tick = "none" /\ ticks = 0 /\ altitude < 0))

\* A reset() of a crashed simulator has returned success with the crash
\* latched again.
C12_Witness == op = "reset" /\ pre.crashed /\ ret = "true" /\ crashed

\* C13: when trim fails during reset() (initial-condition solver succeeded),
\* the four setpoints are 0 afterwards, and reset() reports failure only if
\* its validation step does: it returns success when that step succeeds.
C13_TrimFailureAtReset ==
    (op = "reset" /\ trim = "failed") =>
        /\ controls = ZeroControls
        /\ (ret = "false") <=> (tick = "fail")
        /\ (tick \in {"ok", "none"}) => (ret = "true")

\* A reset() whose trim failed has returned success; the setpoints were not
\* zero before it.
C13_Witness ==
    /\ op = "reset" /\ trim = "failed" /\ ret = "true" /\ tick = "ok"
    /\ pre.controls # ZeroControls /\ controls = ZeroControls

\* C14 as stated: after a reset() that returns success the simulator is
\* paused exactly when start_paused is true.
C14_PauseFollowsStartPaused ==
    (op = "reset" /\ ret = "true") => (IsPaused(State) <=> start_paused)

\* C14 amended: after a reset() that returns success the simulator is paused
\* exactly when start_paused is true or the validation step latched a crash
\* (negative altitude); it is running when start_paused is false and the
\* simulator is not crashed.
C14_PauseFollowsStartPausedOrCrash ==
    (op = "reset" /\ ret = "true") =>
        (IsPaused(State) <=> (start_paused \/ crashed))

\* A successful reset() with start_paused false has left the simulator
\* paused, because it crashed in the validation step.
C14_Witness ==
    op = "reset" /\ ret = "true" /\ ~start_paused /\ crashed /\ holding

\* C15: create_simulator() returns None exactly when its validation step()
\* returns failure (a fault of that step is raised to the caller, a
\* successful step gives the simulator); a trim failure leaves the four
\* setpoints 0 without deciding the result; with start_paused set the
\* returned simulator is paused.
C15_CreateSimulator ==
    (op = "create_simulator") =>
        /\ (ret = "null") <=> (tick = "fail")
        /\ (ret = "simulator") <=> (tick \in {"ok", "none"})
        /\ (ret = "error") <=> (tick = "fault")
        /\ steps = 1
        /\ (trim = "failed") => (controls = ZeroControls)
        /\ (ret = "simulator" /\ start_paused) => IsPaused(State)
        /\ (pc = "idle") <=> (ret = "simulator")

\* create_simulator() has returned a paused simulator although the trim
\* failed.
C15_Witness ==
    /\ op = "create_simulator" /\ ret = "simulator" /\ trim = "failed"
    /\ start_paused /\ holding /\ controls = ZeroControls

\* C16: a fault of the model during the tick of a step() is never turned
\* into a result: step(), run(), run_for() and reset() raise
\* SimulationError exactly when the tick they drove faulted.
C16_FaultsPropagate ==
    (op \in {"step", "run", "run_for", "reset"}) =>
        /\ (tick = "fault") => (ret = "error" /\ pc = "idle")
        /\ (ret = "error") => (tick = "fault")

\* A run_for() has raised SimulationError from its second or later step().
C16_Witness ==
    op = "run_for" /\ tick = "fault" /\ ret = "error" /\ steps >= 2

\* C17: a step() entered with crashed false and a negative altitude, paused
\* or running, holds the model, sets crashed, returns success and drives no
\* tick: Run() is not called and the time is unchanged.
C17_CrashDetectionFirst ==
    (op = "step" /\ ~pre.crashed /\ pre.altitude < 0) =>
        /\ ret = "true"
        /\ crashed
        /\ IsPaused(State)
        /\ tick = "none"
        /\ ticks = 0
        /\ simTime = pre.simTime
        /\ suspended = pre.suspended

\* A step() entered while paused with a negative altitude has latched the
\* crash.
C17_Witness ==
    op = "step" /\ ~pre.crashed /\ pre.holding /\ pre.altitude < 0 /\ crashed

\* C18: after resume() called with crashed false the model is neither held
\* nor integration-suspended.
C18_ResumeClearsBothFlags ==
    (op = "resume" /\ ~pre.crashed) => (~holding /\ ~suspended)

\* resume() was called on a model that was integration-suspended but not
\* held.
C18_Witness ==
    op = "resume" /\ ~pre.crashed /\ ~pre.holding /\ pre.suspended /\ ~suspended

\* C19: when the tick of a step() returns false, step() returns failure,
\* is_paused() is what it was before the call and crashed is unchanged.
C19_FailedStepRestoresPause ==
    (op = "step" /\ tick = "fail") =>
        /\ ret = "false"
        /\ IsPaused(State) = pre.holding
        /\ crashed = pre.crashed

\* A step() of a paused simulator has failed and left it paused.
C19_Witness ==
    op = "step" /\ tick = "fail" /\ pre.holding /\ holding /\ ret = "false"

\* C20: a step() entered while paused (not crashed, altitude not negative)
\* whose tick faults raises SimulationError and leaves the model resumed.
C20_FaultLeavesModelResumed ==
    (op = "step" /\ ~pre.crashed /\ pre.holding /\ pre.altitude >= 0
        /\ tick = "fault") =>
        /\ ret = "error"
        /\ ~IsPaused(State)
        /\ ~suspended

\* A paused, integration-suspended simulator has been left running by a
\* faulting step().
C20_Witness ==
    /\ op = "step" /\ ~pre.crashed /\ pre.holding /\ pre.suspended
    /\ pre.altitude >= 0 /\ tick = "fault" /\ ret = "error" /\ ~holding

====
